---- MODULE Spec2Model ----
(***************************************************************************)
(* Model of src/src/main.rs (matsu1213/ipcheck): the NetworkBlock value    *)
(* type, try_merge, the stack sweep optimize_blocks_simple and the         *)
(* ingestion loop of process_geolite2_networks.                            *)
(*                                                                         *)
(* Addresses are unsigned machine words of BITS bits.  The source uses     *)
(* u32; the model keeps every expression of the source and only scales     *)
(* the word width, so that all blocks of the address space can be          *)
(* enumerated.  Arithmetic that can leave the word is modelled as rustc    *)
(* compiles it: with overflow checks (the dev profile) it panics, without  *)
(* them (the release profile) it wraps, and a shift by the full width      *)
(* shifts by the amount modulo the width.                                  *)
(***************************************************************************)
EXTENDS Integers, Sequences, FiniteSets

VARIABLES
    overflow_checks,  \* build profile: TRUE = overflow checks on (dev), FALSE = wrapping (release)
    blocks,           \* optimize_blocks_simple: the argument, as the caller passed it
    sorted_blocks,    \* optimize_blocks_simple: what the for loop has still to consume
    result,           \* optimize_blocks_simple: the result stack
    blk,              \* optimize_blocks_simple: the loop variable
    pc,               \* optimize_blocks_simple: position in the function
    run,              \* number of the application of optimize_blocks_simple (1 or 2)
    first,            \* what the first application returned
    ma, mb,           \* try_merge called on its own: the two arguments
    mres,             \* try_merge called on its own: what it returned
    mpc,              \* try_merge called on its own: position
    consumed,         \* process_geolite2_networks: the records iter.next() has yielded so far
    foreign_blocks,   \* process_geolite2_networks: the HashSet
    total_networks,   \* process_geolite2_networks: counter
    japan_networks,   \* process_geolite2_networks: counter
    blocks_vec,       \* process_geolite2_networks: foreign_blocks.into_iter().collect()
    ipc               \* process_geolite2_networks: position

vars == << overflow_checks, blocks, sorted_blocks, result, blk, pc, run, first,
           ma, mb, mres, mpc,
           consumed, foreign_blocks, total_networks, japan_networks, blocks_vec, ipc >>

sweepVars == << blocks, sorted_blocks, result, blk, pc, run, first >>
mergeVars == << ma, mb, mres, mpc >>
ingestVars == << consumed, foreign_blocks, total_networks, japan_networks, blocks_vec, ipc >>

(***************************************************************************)
(* Bounds                                                                  *)
(***************************************************************************)
\* width of an address word (u32 in the source, scaled)
BITS == 4
\* most blocks in an input vector of optimize_blocks_simple enumerated in full
MaxBlocks == 4
\* highest raw address a block handed to optimize_blocks_simple is made from
MaxIp == 8
\* longest classification stream
MaxRecords == 2
\* highest raw address of a record of the classification stream
MaxRecordIp == 1

(***************************************************************************)
(* Machine words                                                           *)
(***************************************************************************)
Modulus == 2 ^ BITS
Words == 0 .. (Modulus - 1)
Prefixes == 0 .. BITS

\* !x on a word
Not(x) == Modulus - 1 - x

\* x & y on words, bit by bit
RECURSIVE AndBits(_, _, _)
AndBits(x, y, n) ==
    IF n = 0 THEN 0
    ELSE ((x % 2) * (y % 2)) + 2 * AndBits(x \div 2, y \div 2, n - 1)

BitAnd(x, y) == AndBits(x, y, BITS)

\* u32::trailing_zeros: the width itself for 0
RECURSIVE CountZeros(_, _)
CountZeros(x, n) ==
    IF n = 0 THEN 0
    ELSE IF x % 2 = 1 THEN 0
    ELSE 1 + CountZeros(x \div 2, n - 1)

trailing_zeros(x) == CountZeros(x, BITS)

(***************************************************************************)
(* NetworkBlock                                                            *)
(***************************************************************************)
NetworkBlock == [network : Words, prefix_len : Prefixes]

\* the mask expression written out in new, contains and last:
\* if prefix_len == 0 { 0 } else { !((1u32 << (32 - prefix_len)) - 1) }
inline_mask(prefix_len) ==
    IF prefix_len = 0 THEN 0 ELSE Not((2 ^ (BITS - prefix_len)) - 1)

new(ip, prefix_len) ==
    [network |-> BitAnd(ip, inline_mask(prefix_len)), prefix_len |-> prefix_len]

contains(self, other) ==
    IF self.prefix_len >= other.prefix_len
    THEN FALSE
    ELSE BitAnd(self.network, inline_mask(self.prefix_len))
            = BitAnd(other.network, inline_mask(self.prefix_len))

\* (self.network & mask) + !mask never leaves the word
last(self) ==
    BitAnd(self.network, inline_mask(self.prefix_len)) + Not(inline_mask(self.prefix_len))

\* the blocks NetworkBlock::new can return
CanonicalBlocks == { new(ip, p) : ip \in Words, p \in Prefixes }

(***************************************************************************)
(* block_size and try_merge.  A computation either yields a value or       *)
(* panics (overflow checks on).                                            *)
(***************************************************************************)
Panic == [tag |-> "panic"]
None == [tag |-> "None"]
Some(b) == [tag |-> "Some", block |-> b]
Val(v) == [tag |-> "val", val |-> v]

\* 1u32 << (32 - prefix): a shift by the full width panics with overflow
\* checks and shifts by (amount mod width) without
block_size(prefix, checks) ==
    IF BITS - prefix >= BITS
    THEN IF checks THEN Panic ELSE Val(2 ^ ((BITS - prefix) % BITS))
    ELSE Val(2 ^ (BITS - prefix))

\* a + b on words
add(x, y, checks) ==
    IF x + y >= Modulus
    THEN IF checks THEN Panic ELSE Val((x + y) % Modulus)
    ELSE Val(x + y)

try_merge(a, b, checks) ==
    IF a.prefix_len /= b.prefix_len THEN None
    ELSE LET next == add(last(a), 1, checks) IN
         IF next = Panic THEN Panic
         ELSE IF next.val /= b.network THEN None
         ELSE LET sa == block_size(a.prefix_len, checks)
                  sb == block_size(b.prefix_len, checks)
              IN IF sa = Panic \/ sb = Panic THEN Panic
                 ELSE LET range_size == add(sa.val, sb.val, checks) IN
                      IF range_size = Panic THEN Panic
                      ELSE LET prefix == BITS - trailing_zeros(range_size.val)
                           IN Some(new(a.network, prefix))

(***************************************************************************)
(* try_merge called on its own, on every pair of canonical blocks.  Each   *)
(* specification runs one part of the program; the variables of the other  *)
(* parts stay idle.                                                        *)
(***************************************************************************)
NoBlock == [tag |-> "unset"]

MergeIdle ==
    /\ ma = NoBlock /\ mb = NoBlock /\ mres = NoBlock /\ mpc = "idle"

SweepIdle ==
    /\ blocks = << >> /\ sorted_blocks = << >> /\ result = << >>
    /\ blk = NoBlock /\ pc = "idle" /\ run = 1 /\ first = << >>

IngestIdle ==
    /\ consumed = << >> /\ foreign_blocks = {} /\ total_networks = 0
    /\ japan_networks = 0 /\ blocks_vec = << >> /\ ipc = "idle"

InitMerge ==
    /\ overflow_checks \in BOOLEAN
    /\ ma \in CanonicalBlocks
    /\ mb \in CanonicalBlocks
    /\ mres = NoBlock
    /\ mpc = "call"
    /\ SweepIdle
    /\ IngestIdle

CallTryMerge ==
    /\ mpc = "call"
    /\ mres' = try_merge(ma, mb, overflow_checks)
    /\ mpc' = IF mres' = Panic THEN "panic" ELSE "done"
    /\ UNCHANGED << overflow_checks, ma, mb, sweepVars, ingestVars >>

NextMerge == CallTryMerge

SpecMerge == InitMerge /\ [][NextMerge]_vars


(***************************************************************************)
(* optimize_blocks_simple                                                  *)
(***************************************************************************)
\* the comparator of sort_by: network, then prefix_len
cmp_less(x, y) ==
    \/ x.network < y.network
    \/ x.network = y.network /\ x.prefix_len < y.prefix_len

\* insertion of x behind every element that does not compare greater (stable)
RECURSIVE insert_sorted(_, _)
insert_sorted(s, x) ==
    IF s = << >> THEN << x >>
    ELSE IF cmp_less(x, Head(s)) THEN << x >> \o s
    ELSE << Head(s) >> \o insert_sorted(Tail(s), x)

RECURSIVE sort_by(_)
sort_by(s) ==
    IF s = << >> THEN << >>
    ELSE insert_sorted(sort_by(SubSeq(s, 1, Len(s) - 1)), s[Len(s)])

\* a slip: the containment test with its two blocks exchanged
top_contains_swapped(stack, b) ==
    /\ stack /= << >>
    /\ contains(b, stack[Len(stack)])

\* result.last() is Some(top) and top.contains(&blk)
top_contains(stack, b) ==
    /\ stack /= << >>
    /\ contains(stack[Len(stack)], b)

\* if blocks.len() <= 1 { return blocks; }
EarlyReturn ==
    /\ pc = "entry"
    /\ Len(blocks) <= 1
    /\ result' = blocks
    /\ pc' = "done"
    /\ UNCHANGED << overflow_checks, blocks, sorted_blocks, blk, run, first,
                    mergeVars, ingestVars >>

\* sorted_blocks.sort_by(..); let mut result = Vec::new();
SortBlocks ==
    /\ pc = "entry"
    /\ Len(blocks) > 1
    /\ sorted_blocks' = sort_by(blocks)
    /\ result' = << >>
    /\ pc' = "for"
    /\ UNCHANGED << overflow_checks, blocks, blk, run, first, mergeVars, ingestVars >>

\* for mut blk in sorted_blocks { if top.contains(&blk) { continue; } ..
Discard ==
    /\ pc = "for"
    /\ sorted_blocks /= << >>
    /\ top_contains(result, Head(sorted_blocks))
    /\ blk' = Head(sorted_blocks)
    /\ sorted_blocks' = Tail(sorted_blocks)
    /\ UNCHANGED << overflow_checks, blocks, result, pc, run, first,
                    mergeVars, ingestVars >>

\* .. result.push(blk); loop {
PushBlk ==
    /\ pc = "for"
    /\ sorted_blocks /= << >>
    /\ ~ top_contains(result, Head(sorted_blocks))
    /\ blk' = Head(sorted_blocks)
    /\ sorted_blocks' = Tail(sorted_blocks)
    /\ result' = Append(result, Head(sorted_blocks))
    /\ pc' = "loop"
    /\ UNCHANGED << overflow_checks, blocks, run, first, mergeVars, ingestVars >>

\* if result.len() < 2 { break; }
LoopBreakShort ==
    /\ pc = "loop"
    /\ Len(result) < 2
    /\ pc' = "for"
    /\ UNCHANGED << overflow_checks, blocks, sorted_blocks, result, blk, run, first,
                    mergeVars, ingestVars >>

\* try_merge(&a, &b) on the two topmost elements, a below b
top_merge(stack, checks) ==
    try_merge(stack[Len(stack) - 1], stack[Len(stack)], checks)

\* the stack after result.pop(); result.pop();
popped(stack) == SubSeq(stack, 1, Len(stack) - 2)

\* if let Some(parent) = try_merge(&a, &b) { pop; pop;
\*     if prev.contains(&parent) { continue; }  blk = parent; result.push(parent); }
MergeSome ==
    /\ pc = "loop"
    /\ Len(result) >= 2
    /\ top_merge(result, overflow_checks).tag = "Some"
    /\ LET parent == top_merge(result, overflow_checks).block
       IN IF top_contains(popped(result), parent)
          THEN /\ result' = popped(result)
               /\ blk' = blk
          ELSE /\ result' = Append(popped(result), parent)
               /\ blk' = parent
    /\ pc' = "loop"
    /\ UNCHANGED << overflow_checks, blocks, sorted_blocks, run, first,
                    mergeVars, ingestVars >>

\* } else { break; }
MergeNone ==
    /\ pc = "loop"
    /\ Len(result) >= 2
    /\ top_merge(result, overflow_checks) = None
    /\ pc' = "for"
    /\ UNCHANGED << overflow_checks, blocks, sorted_blocks, result, blk, run, first,
                    mergeVars, ingestVars >>

\* an arithmetic overflow inside try_merge with overflow checks on
MergePanic ==
    /\ pc = "loop"
    /\ Len(result) >= 2
    /\ top_merge(result, overflow_checks) = Panic
    /\ pc' = "panic"
    /\ UNCHANGED << overflow_checks, blocks, sorted_blocks, result, blk, run, first,
                    mergeVars, ingestVars >>

\* the for loop is exhausted: result is returned
Return ==
    /\ pc = "for"
    /\ sorted_blocks = << >>
    /\ pc' = "done"
    /\ UNCHANGED << overflow_checks, blocks, sorted_blocks, result, blk, run, first,
                    mergeVars, ingestVars >>

\* optimize_blocks_simple applied to what it returned
Rerun ==
    /\ pc = "done"
    /\ run = 1
    /\ first' = result
    /\ blocks' = result
    /\ sorted_blocks' = << >>
    /\ result' = << >>
    /\ blk' = NoBlock
    /\ run' = 2
    /\ pc' = "entry"
    /\ UNCHANGED << overflow_checks, mergeVars, ingestVars >>

NextSweep ==
    \/ EarlyReturn
    \/ SortBlocks
    \/ Discard
    \/ PushBlk
    \/ LoopBreakShort
    \/ MergeSome
    \/ MergeNone
    \/ MergePanic
    \/ Return

Next == NextSweep \/ Rerun

(***************************************************************************)
(* Inputs of optimize_blocks_simple                                        *)
(***************************************************************************)
\* strictly ascending in the order of the comparator: no block twice
Ascending(s) == \A i \in 1 .. (Len(s) - 1) : cmp_less(s[i], s[i + 1])

Reverse(s) == [i \in 1 .. Len(s) |-> s[Len(s) + 1 - i]]
Rotate(s) == IF s = << >> THEN s ELSE Append(Tail(s), Head(s))
Orders(s) == { s, Reverse(s), Rotate(s) }

\* the 2^k blocks of prefix p that partition the block parent (prefix p - k), ascending
Children(parent, k) ==
    LET p == parent.prefix_len + k
    IN [i \in 1 .. (2 ^ k) |->
            [network |-> parent.network + (i - 1) * (2 ^ (BITS - p)), prefix_len |-> p]]

PartitionInputs ==
    UNION { Orders(Children(q[1], q[2])) :
              q \in { r \in CanonicalBlocks \X (1 .. BITS) :
                          r[1].prefix_len + r[2] <= BITS } }

\* the blocks the caller makes: NetworkBlock::new(ip_u32, prefix)
InputBlocks == { new(ip, p) : ip \in 0 .. MaxIp, p \in Prefixes }

\* The caller hands over the elements of a HashSet in the order of its
\* iterator: no block twice, in no particular order.  Every set of at most
\* MaxBlocks input blocks is enumerated, each in three orders, and every
\* partition of a block into blocks of one prefix length.
Init ==
    /\ overflow_checks \in BOOLEAN
    /\ \/ \E n \in 0 .. MaxBlocks :
             \E s \in { f \in [1 .. n -> InputBlocks] : Ascending(f) } :
                blocks \in Orders(s)
       \/ blocks \in PartitionInputs
    /\ sorted_blocks = << >>
    /\ result = << >>
    /\ blk = NoBlock
    /\ pc = "entry"
    /\ run = 1
    /\ first = << >>
    /\ MergeIdle
    /\ IngestIdle

Spec == Init /\ [][Next]_vars

(***************************************************************************)
(* process_geolite2_networks: the loop over the classification stream      *)
(***************************************************************************)
\* what iter.next() can yield: Err(_), or Ok(item) with item.info.country absent
\* ("no_country"), present without iso_code ("no_iso"), or present with a code
Classes == {"no_country", "no_iso", "JP", "US"}
ErrRecord == [class |-> "err"]
OkRecords == [ip : 0 .. MaxRecordIp, prefix : Prefixes, class : Classes]

\* if let Some(country) = item.info.country
has_country(r) == r.class /= "no_country"

\* a slip: a record without iso_code taken for a home record, unwrap_or(true)
is_japan_default_true(r) == IF r.class = "no_iso" THEN TRUE ELSE r.class = "JP"

\* country.iso_code.map(|code| code == "JP").unwrap_or(false)
is_japan(r) == IF r.class = "no_iso" THEN FALSE ELSE r.class = "JP"

\* the orders in which the iterator of a HashSet can yield its elements
Collected(S) ==
    { f \in [1 .. Cardinality(S) -> S] : { f[i] : i \in DOMAIN f } = S }

InitIngest ==
    /\ overflow_checks \in BOOLEAN
    /\ consumed = << >>
    /\ foreign_blocks = {}
    /\ total_networks = 0
    /\ japan_networks = 0
    /\ blocks_vec = << >>
    /\ ipc = "reading"
    /\ SweepIdle
    /\ MergeIdle

\* Err(_) => continue
ReadErr ==
    /\ ipc = "reading"
    /\ Len(consumed) < MaxRecords
    /\ consumed' = Append(consumed, ErrRecord)
    /\ UNCHANGED << overflow_checks, foreign_blocks, total_networks, japan_networks,
                    blocks_vec, ipc, sweepVars, mergeVars >>

\* Ok(item), country present, is_japan: japan_networks += 1
ReadJapan ==
    /\ ipc = "reading"
    /\ Len(consumed) < MaxRecords
    /\ \E r \in OkRecords :
          /\ has_country(r)
          /\ is_japan(r)
          /\ consumed' = Append(consumed, r)
    /\ total_networks' = total_networks + 1
    /\ japan_networks' = japan_networks + 1
    /\ UNCHANGED << overflow_checks, foreign_blocks, blocks_vec, ipc,
                    sweepVars, mergeVars >>

\* Ok(item), country present, not is_japan: foreign_blocks.insert(block)
ReadForeign ==
    /\ ipc = "reading"
    /\ Len(consumed) < MaxRecords
    /\ \E r \in OkRecords :
          /\ has_country(r)
          /\ ~ is_japan(r)
          /\ consumed' = Append(consumed, r)
          /\ foreign_blocks' = foreign_blocks \cup { new(r.ip, r.prefix) }
    /\ total_networks' = total_networks + 1
    /\ UNCHANGED << overflow_checks, japan_networks, blocks_vec, ipc,
                    sweepVars, mergeVars >>

\* Ok(item), country absent: foreign_blocks.insert(block)
ReadNoCountry ==
    /\ ipc = "reading"
    /\ Len(consumed) < MaxRecords
    /\ \E r \in OkRecords :
          /\ ~ has_country(r)
          /\ consumed' = Append(consumed, r)
          /\ foreign_blocks' = foreign_blocks \cup { new(r.ip, r.prefix) }
    /\ total_networks' = total_networks + 1
    /\ UNCHANGED << overflow_checks, japan_networks, blocks_vec, ipc,
                    sweepVars, mergeVars >>

\* iter.next() is None: blocks_vec = foreign_blocks.into_iter().collect(),
\* handed to optimize_blocks_simple
EndOfStream ==
    /\ ipc = "reading"
    /\ blocks_vec' \in Collected(foreign_blocks)
    /\ ipc' = "handed"
    /\ UNCHANGED << overflow_checks, consumed, foreign_blocks, total_networks,
                    japan_networks, sweepVars, mergeVars >>

NextIngest ==
    \/ ReadErr
    \/ ReadJapan
    \/ ReadForeign
    \/ ReadNoCountry
    \/ EndOfStream

SpecIngest == InitIngest /\ [][NextIngest]_vars

(***************************************************************************)
(* Vocabulary of the claims                                                *)
(***************************************************************************)
\* the addresses of a block, counted from its network address
Size(b) == 2 ^ (BITS - b.prefix_len)
Addresses(b) == b.network .. (b.network + Size(b) - 1)
Elems(s) == { s[i] : i \in DOMAIN s }
Cover(s) == UNION { Addresses(b) : b \in Elems(s) }
IsDistinct(s) == Cardinality(Elems(s)) = Len(s)

\* a and b are the low and the high half of one aligned block
Halves(a, b) ==
    /\ a.prefix_len = b.prefix_len
    /\ a.prefix_len >= 1
    /\ a.network % (2 * Size(a)) = 0
    /\ b.network = a.network + Size(a)

\* the condition the specification calls merge-eligible
MergeEligible(x, y) ==
    /\ x.prefix_len = y.prefix_len
    /\ last(x) + 1 = y.network

Returned == pc = "done" /\ run = 1

\* C1: the blocks returned cover exactly the addresses the input blocks cover.
C1_CoveragePreserved ==
    Returned => Cover(result) = Cover(blocks)

\* C2: a block returned by try_merge(a, b) contains a and b and has their summed
\* size, and equal-prefix blocks that are adjacent without being the two halves
\* of one aligned parent are not merged.
C2_MergeSound ==
    mpc = "done" =>
        /\ mres.tag = "Some" =>
              /\ contains(mres.block, ma)
              /\ contains(mres.block, mb)
              /\ Size(mres.block) = Size(ma) + Size(mb)
        /\ (MergeEligible(ma, mb) /\ ~ Halves(ma, mb)) => mres = None

\* C3: no returned block is contained in another returned block and no two
\* distinct returned blocks share an address.
C3_NoContainmentNoOverlap ==
    Returned =>
        \A i, j \in DOMAIN result :
            i /= j =>
                /\ ~ contains(result[i], result[j])
                /\ result[i] /= result[j] =>
                      Addresses(result[i]) \cap Addresses(result[j]) = {}

\* C4: no two returned blocks, at any two positions, are merge-eligible.
C4_MergeIrreducible ==
    Returned =>
        \A i, j \in DOMAIN result :
            i /= j => ~ MergeEligible(result[i], result[j])

\* C5: applying the sweep to what it returned returns the same set of blocks.
C5_Idempotent ==
    (pc = "done" /\ run = 2) => Elems(result) = Elems(first)

\* C7: try_merge returns nothing when its first argument has prefix length 0.
C7_PrefixZeroNeverMerges ==
    (mpc = "done" /\ ma.prefix_len = 0) => mres = None

\* the block of which the input vector is the partition into 2^k blocks, if any
PartitionedBlocks(s) ==
    { q \in CanonicalBlocks \X (1 .. BITS) :
        /\ q[1].prefix_len + q[2] <= BITS
        /\ Len(s) = 2 ^ q[2]
        /\ Elems(s) = Elems(Children(q[1], q[2])) }

\* C8: when the input is the partition of an aligned block S into 2^k blocks of
\* one prefix length, in any order, the sweep runs to its end and returns
\* exactly S.
C8_CascadeToParent ==
    run = 1 =>
        \A q \in PartitionedBlocks(blocks) :
            /\ pc /= "panic"
            /\ pc = "done" => result = << q[1] >>

\* C9: the returned vector is ascending by network, and by prefix length among
\* equal networks.
C9_ResultAscending ==
    Returned =>
        \A i \in 1 .. (Len(result) - 1) :
            \/ result[i].network < result[i + 1].network
            \/ /\ result[i].network = result[i + 1].network
               /\ result[i].prefix_len <= result[i + 1].prefix_len

\* C10: on an input without repeated blocks no stack element contains the
\* element directly above it, and when try_merge succeeds on the two topmost
\* elements the element below them does not contain the merged parent, so the
\* parent is pushed.
C10_ParentNeverDiscarded ==
    (IsDistinct(blocks) /\ run = 1 /\ pc \in {"for", "loop", "done"}) =>
        /\ \A i \in 1 .. (Len(result) - 1) : ~ contains(result[i], result[i + 1])
        /\ (pc = "loop" /\ Len(result) >= 2
              /\ top_merge(result, overflow_checks).tag = "Some") =>
                 ~ top_contains(popped(result), top_merge(result, overflow_checks).block)

\* a merge succeeds on the two topmost elements while an element lies below them
C10_Witness ==
    /\ IsDistinct(blocks) /\ run = 1 /\ pc = "loop" /\ Len(result) >= 3
    /\ top_merge(result, overflow_checks).tag = "Some"

\* the block of a record, by arithmetic on its address
Canon(r) == [network |-> r.ip - (r.ip % (2 ^ (BITS - r.prefix))), prefix_len |-> r.prefix]

\* the records read successfully whose classification is absent or not the home code
ForeignRead(s) ==
    { s[i] : i \in { k \in DOMAIN s : s[k].class \in {"no_country", "no_iso", "US"} } }

\* C6: the set of blocks is exactly the blocks of the records read successfully
\* whose classification is absent or differs from the home code, the home
\* counter counts the home records, a record that fails to read changes
\* nothing, and the vector handed to the sweep holds that set, each block once.
C6_IngestionPolicy ==
    ipc \in {"reading", "handed"} =>
        /\ foreign_blocks = { Canon(r) : r \in ForeignRead(consumed) }
        /\ japan_networks = Cardinality({ k \in DOMAIN consumed : consumed[k].class = "JP" })
        /\ total_networks = Cardinality({ k \in DOMAIN consumed : consumed[k].class /= "err" })
        /\ ipc = "handed" =>
              /\ Elems(blocks_vec) = foreign_blocks
              /\ IsDistinct(blocks_vec)

\* a stream with a home record and an unclassified record has been handed over
C6_Witness ==
    /\ ipc = "handed"
    /\ \E i, j \in DOMAIN consumed :
          /\ consumed[i].class = "JP"
          /\ consumed[j].class = "no_country"
          /\ blocks_vec = << Canon(consumed[j]) >>

====
